---- MODULE Spec2Model ----
(***************************************************************************)
(* A model of the data preparation stages of quant/data_preparation:       *)
(*   anomaly_handler.handle_missing_trading_days   (the gap filler)        *)
(*   window_creator.create_target                  (the labeler)           *)
(*   window_creator.create_windows_and_target      (the window slicer)     *)
(*                                                                         *)
(* A DataFrame is a record [ok, cols, rows]: ok = FALSE is Python's None,  *)
(* cols is the set of column names, rows the sequence of rows in frame     *)
(* order.  A row is a record holding the index value (datetime, a day      *)
(* number) and one field per column.  A missing numeric value (NaN) is the *)
(* value NaN, which no computation of the model yields.                    *)
(***************************************************************************)
EXTENDS Integers, Sequences, FiniteSets, TLC

VARIABLES
    pc,               \* position of the run: which call has returned
    df,               \* the table handed to the function under study
    window_size,      \* argument window_size
    prediction_days,  \* argument prediction_days
    work,             \* create_windows_and_target's local df after labeling
    out,              \* what the last call returned
    prev,             \* what the call before it returned
    changed,          \* (entity, date) of the row whose close was edited
    exit_code,        \* what data_pipeline.main returned, NaN while it runs
    saved             \* the table main wrote to the output file, None if none

vars == <<pc, df, window_size, prediction_days, work, out, prev, changed,
          exit_code, saved>>

----------------------------------------------------------------------------
(* Bounds of the model.                                                    *)

MaxDate == 4          \* create_target inputs use the days 0..MaxDate
MaxRows == 3          \* rows of the first entity of a create_target input
MaxClose == 2         \* close prices of the generated inputs are 1..MaxClose
MaxPred == 2          \* prediction_days ranges over 1..MaxPred

----------------------------------------------------------------------------
(* Values.                                                                 *)

NaN == -1000000

None == [ok |-> FALSE, cols |-> {}, rows |-> <<>>]

\* What a call that raises KeyError leaves the caller with.
KeyError == [ok |-> FALSE, cols |-> {"KeyError"}, rows |-> <<>>]

Frame(cols, rows) == [ok |-> TRUE, cols |-> cols, rows |-> rows]

\* isinstance(df.index, pd.DatetimeIndex): the rows carry a date.
has_datetime_index(d) ==
    \A i \in 1..Len(d.rows) : "datetime" \in DOMAIN d.rows[i]

NoKey == [stock_id |-> "", datetime |-> NaN]

\* The entity identifiers, in the order in which sorting puts them.
StockIds == <<"A", "B">>

StockRank(s) == CHOOSE i \in 1..Len(StockIds) : StockIds[i] = s

isna(v) == v = NaN

Min(S) == CHOOSE x \in S : \A y \in S : x <= y

Max(S) == CHOOSE x \in S : \A y \in S : x >= y

SeqToSet(s) == {s[i] : i \in 1..Len(s)}

\* A row with column c set to v (the column is added when it is new).
WithCol(r, c, v) == [k \in DOMAIN r \cup {c} |-> IF k = c THEN v ELSE r[k]]

\* A row without column c.
DropCol(r, c) == [k \in DOMAIN r \ {c} |-> r[k]]

----------------------------------------------------------------------------
(* Sorting.  The positions 1..n in ascending order of key, ties in their   *)
(* original order.                                                         *)

RECURSIVE SortIdx(_, _)
SortIdx(key, n) ==
    IF n = 0 THEN <<>>
    ELSE LET before == SortIdx(key, n - 1)
             pos == Cardinality({j \in 1..Len(before) : key[before[j]] <= key[n]})
         IN  SubSeq(before, 1, pos) \o <<n>> \o SubSeq(before, pos + 1, Len(before))

\* The rows left in the order in which they came.
sort_values_skipped(rows) == rows

\* df.sort_values(['stock_id', 'datetime'])
sort_values(rows) ==
    LET hi == 1 + Max({0} \cup {rows[i].datetime : i \in 1..Len(rows)})
        key == [i \in 1..Len(rows) |->
                    StockRank(rows[i].stock_id) * hi + rows[i].datetime]
        idx == SortIdx(key, Len(rows))
    IN  [i \in 1..Len(rows) |-> rows[idx[i]]]

\* df.sort_index(): by date alone
sort_index(rows) ==
    LET key == [i \in 1..Len(rows) |-> rows[i].datetime]
        idx == SortIdx(key, Len(rows))
    IN  [i \in 1..Len(rows) |-> rows[idx[i]]]

\* df['stock_id'].unique(): the entities in order of first appearance
RECURSIVE unique_stocks(_)
unique_stocks(rows) ==
    IF rows = <<>> THEN <<>>
    ELSE LET n == Len(rows)
             front == unique_stocks(SubSeq(rows, 1, n - 1))
         IN  IF rows[n].stock_id \in SeqToSet(front)
             THEN front ELSE Append(front, rows[n].stock_id)

\* df[df['stock_id'] == stock_id]
stock_rows(rows, s) ==
    LET Keep(r) == r.stock_id = s IN SelectSeq(rows, Keep)

RECURSIVE Concat(_)
Concat(seqs) ==
    IF seqs = <<>> THEN <<>> ELSE Head(seqs) \o Concat(Tail(seqs))

----------------------------------------------------------------------------
(* window_creator.create_target                                            *)

\* pd.merge_asof(..., direction='forward'): the position in the date-sorted
\* group of the first row dated on or after the lookup date, 0 when there
\* is none.
merge_asof_backward(group, lookup) ==
    LET c == {j \in 1..Len(group) : group[j].datetime <= lookup}
    IN  IF c = {} THEN 0 ELSE Max(c)

\* The last row on or after the lookup date instead of the first.
merge_asof_last(group, lookup) ==
    LET c == {j \in 1..Len(group) : group[j].datetime >= lookup}
    IN  IF c = {} THEN 0 ELSE Max(c)

merge_asof(group, lookup) ==
    LET c == {j \in 1..Len(group) : group[j].datetime >= lookup}
    IN  IF c = {} THEN 0 ELSE Min(c)

\* The future close of every row of one entity's date-sorted rows.
find_future_close_for_group(group, pred_days) ==
    [i \in 1..Len(group) |->
        LET j == merge_asof(group, group[i].datetime + pred_days)
        IN  IF j = 0 THEN NaN ELSE group[j].close]

\* df.groupby('stock_id'): the groups in key order, each in frame order.
groupby(sorted) ==
    LET ids == unique_stocks(sorted)
    IN  [g \in 1..Len(ids) |-> stock_rows(sorted, ids[g])]

group_index(group) == [i \in 1..Len(group) |-> group[i].datetime]

\* groupby(...).apply(f) with f returning one Series per group: pandas
\* concatenates the Series when their indexes differ, and otherwise stacks
\* them as the rows of a DataFrame indexed by the group keys, with one
\* column per date.
all_indexes_same(groups) ==
    \A g \in 1..Len(groups) : group_index(groups[g]) = group_index(groups[1])

\* The future_close column assigned at lines 138-150: [ok, values].  A
\* stacked result does not share df's index, is reindexed to all-NaN rows,
\* and can be assigned only when it has a single column; otherwise the
\* assignment raises and create_target returns None.
future_close_column(sorted, pred_days) ==
    LET groups == groupby(sorted)
        series == [g \in 1..Len(groups) |->
                      find_future_close_for_group(groups[g], pred_days)]
    IN  IF ~all_indexes_same(groups)
        THEN [ok |-> TRUE, values |-> Concat(series)]
        ELSE IF Len(groups[1]) > 1
             THEN [ok |-> FALSE, values |-> <<>>]
             ELSE [ok |-> TRUE, values |-> [i \in 1..Len(sorted) |-> NaN]]

\* np.where(future_close > close, 1, 0), NaN where future_close is NaN
binary_target(future_close, close) ==
    IF isna(future_close) THEN NaN
    ELSE IF ~isna(close) /\ future_close > close THEN 1 ELSE 0

\* Line 34 returns None without a date index; the sort at line 38 raises
\* without a stock_id column, and the lookup (line 58) without a close.
create_target(d, pred_days) ==
    IF ~has_datetime_index(d) THEN None
    ELSE IF "stock_id" \notin d.cols \/ "close" \notin d.cols THEN KeyError
    ELSE LET sorted == sort_values(d.rows)
             fc == future_close_column(sorted, pred_days)
         IN  IF ~fc.ok THEN None
             ELSE Frame(d.cols \cup {"target"},
                        [i \in 1..Len(sorted) |->
                            WithCol(sorted[i], "target",
                                    binary_target(fc.values[i], sorted[i].close))])

----------------------------------------------------------------------------
(* Inputs of create_target: the rows of each entity are a set of dated     *)
(* closes, unique by (entity, date); the frame lists them sorted by date,  *)
(* as the loader and the gap filler leave them.                            *)

TargetRow(s, d, c) == [stock_id |-> s, datetime |-> d, close |-> c]

Dates == 0..MaxDate

DateSets(n) == {S \in SUBSET Dates : Cardinality(S) <= n}

\* The rows of entity s on the dates S with closes given by f, by date.
RECURSIVE EntityRows(_, _, _)
EntityRows(s, S, f) ==
    IF S = {} THEN <<>>
    ELSE LET d == Min(S)
         IN  <<TargetRow(s, d, f[d])>> \o EntityRows(s, S \ {d}, f)

\* The second entity has the first k days, each with close 1.
OtherDates(n) == {0..(k - 1) : k \in 0..n}

InitTarget ==
    /\ pc = "input"
    /\ \E SA \in DateSets(MaxRows) \ {{}}, SB \in OtherDates(MaxRows - 1) :
          \E fA \in [SA -> 1..MaxClose] :
              df = Frame({"stock_id", "close"},
                         sort_index(EntityRows("A", SA, fA)
                                    \o EntityRows("B", SB, [d \in SB |-> 1])))
    /\ prediction_days \in 1..MaxPred
    /\ window_size = 0
    /\ work = None
    /\ out = None
    /\ prev = None
    /\ changed = NoKey
    /\ exit_code = NaN
    /\ saved = None

\* df = create_target(df, prediction_days)
CreateTarget ==
    /\ pc = "input"
    /\ out' = create_target(df, prediction_days)
    /\ pc' = "labeled"
    /\ UNCHANGED <<df, window_size, prediction_days, work, prev, changed,
                 exit_code, saved>>

\* The caller edits the close of one row of the input table.
ChangeClose ==
    /\ pc = "labeled"
    /\ \E i \in 1..Len(df.rows), c \in (1..(MaxClose + 1)) \cup {NaN} :
          /\ c # df.rows[i].close
          /\ df' = [df EXCEPT !.rows[i].close = c]
          /\ changed' = [stock_id |-> df.rows[i].stock_id,
                         datetime |-> df.rows[i].datetime]
    /\ prev' = out
    /\ pc' = "changed"
    /\ UNCHANGED <<window_size, prediction_days, work, out,
                 exit_code, saved>>

\* create_target runs again, on the edited table.
CreateTargetAgain ==
    /\ pc = "changed"
    /\ out' = create_target(df, prediction_days)
    /\ pc' = "relabeled"
    /\ UNCHANGED <<df, window_size, prediction_days, work, prev, changed,
                 exit_code, saved>>

NextTarget == CreateTarget \/ ChangeClose \/ CreateTargetAgain

SpecTarget == InitTarget /\ [][NextTarget]_vars

----------------------------------------------------------------------------
(* Properties of create_target.                                            *)

Labeled == pc \in {"labeled", "relabeled"}

HasRow(t, s, d) == \E i \in 1..Len(t.rows) :
                       t.rows[i].stock_id = s /\ t.rows[i].datetime = d

RowOf(t, s, d) == t.rows[CHOOSE i \in 1..Len(t.rows) :
                       t.rows[i].stock_id = s /\ t.rows[i].datetime = d]

\* The rows of r's entity dated on or after r's date + n days.
FutureRows(rows, r, n) ==
    {m \in SeqToSet(rows) : m.stock_id = r.stock_id /\ m.datetime >= r.datetime + n}

FirstFuture(rows, r, n) ==
    CHOOSE m \in FutureRows(rows, r, n) :
        \A x \in FutureRows(rows, r, n) : m.datetime <= x.datetime

NonNullCloses(rows) == \A i \in 1..Len(rows) : ~isna(rows[i].close)

\* C1: create_target labels every row by a forward as-of lookup inside its
\* own entity: with m the first row of the entity dated on or after
\* date + prediction_days, target = 1 if m.close > row.close, else 0.
C1_ForwardLookupLabelsEveryRow ==
    (Labeled /\ NonNullCloses(df.rows)) =>
        /\ out.ok
        /\ \A r \in SeqToSet(df.rows) :
              /\ HasRow(out, r.stock_id, r.datetime)
              /\ FutureRows(df.rows, r, prediction_days) # {} =>
                    RowOf(out, r.stock_id, r.datetime).target =
                        (IF FirstFuture(df.rows, r, prediction_days).close > r.close
                         THEN 1 ELSE 0)

\* The two runs of create_target give row r the same target.
SameTarget(r) ==
    /\ prev.ok = out.ok
    /\ out.ok => RowOf(prev, r.stock_id, r.datetime).target =
                 RowOf(out, r.stock_id, r.datetime).target

IsChanged(r) == r.stock_id = changed.stock_id /\ r.datetime = changed.datetime

\* C2 as stated: target depends only on rows dated on or after the row's
\* date + prediction_days (and on the row itself), and changing the close
\* of a row dated after that cutoff never changes an earlier row's target.
C2_Original ==
    (pc = "relabeled" /\ NonNullCloses(df.rows) /\ NonNullCloses(prev.rows)) =>
        \A r \in SeqToSet(df.rows) :
            (/\ ~IsChanged(r)
             /\ r.stock_id = changed.stock_id
             /\ changed.datetime # r.datetime + prediction_days) => SameTarget(r)

\* C2 as amended: the target of a row depends only on the row's own close
\* and on rows of its entity dated on or after its date + prediction_days:
\* changing the close of any other row dated before that cutoff, or of a
\* row of another entity, never changes the row's target.
C2_LeakageFree ==
    pc = "relabeled" =>
        \A r \in SeqToSet(df.rows) :
            (/\ ~IsChanged(r)
             /\ \/ r.stock_id # changed.stock_id
                \/ changed.datetime < r.datetime + prediction_days) => SameTarget(r)

\* A labeled row r whose entity had the close of a row dated strictly
\* between r and r's cutoff edited, with both runs labeling r.
C2_Witness ==
    /\ pc = "relabeled"
    /\ out.ok
    /\ \E r \in SeqToSet(df.rows) :
          /\ r.stock_id = changed.stock_id
          /\ r.datetime < changed.datetime
          /\ changed.datetime < r.datetime + prediction_days
          /\ ~isna(RowOf(out, r.stock_id, r.datetime).target)
          /\ RowOf(prev, changed.stock_id, changed.datetime).close #
             RowOf(out, changed.stock_id, changed.datetime).close

\* C3: given non-null closes, a row's target is null exactly when its
\* entity has no row dated on or after date + prediction_days; every other
\* row gets 0 or 1, whatever rows other entities have.
C3_NullExactlyWithoutFutureRow ==
    (Labeled /\ NonNullCloses(df.rows)) =>
        /\ out.ok
        /\ \A r \in SeqToSet(df.rows) :
              /\ HasRow(out, r.stock_id, r.datetime)
              /\ RowOf(out, r.stock_id, r.datetime).target \in {0, 1, NaN}
              /\ isna(RowOf(out, r.stock_id, r.datetime).target) <=>
                     (FutureRows(df.rows, r, prediction_days) = {})

\* C28: the target of a row r with a matched future row m (the first row
\* of r's entity dated on or after r's date + prediction_days) is the same
\* after the close of any row other than r and m is changed, dates kept.
C28_TargetFromOwnAndMatchedClose ==
    pc = "relabeled" =>
        \A r \in SeqToSet(df.rows) :
            (/\ FutureRows(df.rows, r, prediction_days) # {}
             /\ ~IsChanged(r)
             /\ ~IsChanged(FirstFuture(df.rows, r, prediction_days))) => SameTarget(r)

\* The close of a row dated after r's matched row was changed, r labeled
\* 0 or 1 in both runs.
C28_Witness ==
    /\ pc = "relabeled"
    /\ out.ok
    /\ \E r \in SeqToSet(df.rows) :
          /\ FutureRows(df.rows, r, prediction_days) # {}
          /\ r.stock_id = changed.stock_id
          /\ changed.datetime > FirstFuture(df.rows, r, prediction_days).datetime
          /\ RowOf(out, r.stock_id, r.datetime).target \in {0, 1}
          /\ RowOf(prev, r.stock_id, r.datetime).target \in {0, 1}

\* The output holds the rows of the input, each with its values and a
\* target, and no other row or column.
InputRowsPlusTarget ==
    /\ out.cols = df.cols \cup {"target"}
    /\ Len(out.rows) = Len(df.rows)
    /\ \A r \in SeqToSet(df.rows) :
          /\ HasRow(out, r.stock_id, r.datetime)
          /\ DOMAIN RowOf(out, r.stock_id, r.datetime) = DOMAIN r \cup {"target"}
          /\ \A c \in DOMAIN r : RowOf(out, r.stock_id, r.datetime)[c] = r[c]

\* C25: create_target returns the rows of its input, none added or
\* removed, every input column with its values, and target as the only new
\* column (no future_lookup_date, no future_close).
C25_OnlyTargetAdded ==
    Labeled => (out.ok /\ InputRowsPlusTarget)

\* Whenever create_target returns a table, it is the input plus target.
OnlyTargetAddedWhenLabeled ==
    (Labeled /\ out.ok) => InputRowsPlusTarget

\* create_target has returned a table for rows of two entities.
LabeledTwoEntities ==
    /\ pc = "labeled"
    /\ out.ok
    /\ {r.stock_id : r \in SeqToSet(df.rows)} = {"A", "B"}
    /\ Len(df.rows) >= 3

\* The same two statements for the tables on which the groupby result is a
\* Series (the entities do not all share one set of dates).
LabelingHolds ==
    (Labeled /\ NonNullCloses(df.rows) /\ out.ok) =>
        \A r \in SeqToSet(df.rows) :
            /\ HasRow(out, r.stock_id, r.datetime)
            /\ RowOf(out, r.stock_id, r.datetime).target =
                 (IF FutureRows(df.rows, r, prediction_days) = {} THEN NaN
                  ELSE IF FirstFuture(df.rows, r, prediction_days).close > r.close
                       THEN 1 ELSE 0)


----------------------------------------------------------------------------
(* create_target on the same rows in another order.                        *)

MaxOrderRows == 2     \* rows of the first entity of a reordered input

\* Every sequence that lists the elements of S once.
RECURSIVE Perms(_)
Perms(S) ==
    IF S = {} THEN {<<>>}
    ELSE UNION {{<<x>> \o p : p \in Perms(S \ {x})} : x \in S}

OrderCloses == {1, 2}

InitOrder ==
    /\ pc = "input"
    /\ \E SA \in DateSets(MaxOrderRows) \ {{}}, SB \in OtherDates(2) :
          \E fA \in [SA -> OrderCloses] :
              df = Frame({"stock_id", "close"},
                         sort_index(EntityRows("A", SA, fA)
                                    \o EntityRows("B", SB, [d \in SB |-> 1])))
    /\ prediction_days \in 1..MaxPred
    /\ window_size = 0
    /\ work = None
    /\ out = None
    /\ prev = None
    /\ changed = NoKey
    /\ exit_code = NaN
    /\ saved = None

\* The caller hands over the same rows in another order.
PermuteRows ==
    /\ pc = "labeled"
    /\ \E p \in Perms(1..Len(df.rows)) :
          /\ p # [i \in 1..Len(df.rows) |-> i]
          /\ df' = [df EXCEPT !.rows = [i \in 1..Len(df.rows) |-> df.rows[p[i]]]]
    /\ prev' = out
    /\ pc' = "changed"
    /\ UNCHANGED <<window_size, prediction_days, work, out, changed,
                   exit_code, saved>>

NextOrder == CreateTarget \/ PermuteRows \/ CreateTargetAgain

SpecOrder == InitOrder /\ [][NextOrder]_vars

\* C12: create_target gives every (entity, date) the same target whatever
\* the order of the input rows.
C12_StableUnderRowOrder ==
    (pc = "relabeled" /\ changed = NoKey) =>
        /\ out.ok = prev.ok
        /\ out.ok => /\ Len(out.rows) = Len(df.rows)
                     /\ \A r \in SeqToSet(df.rows) :
                           /\ HasRow(out, r.stock_id, r.datetime)
                           /\ SameTarget(r)

\* Two entities, the rows of one of them out of date order, and the
\* relabeled table has a row labeled 1 and a row without a label.
C12_Witness ==
    /\ pc = "relabeled" /\ changed = NoKey
    /\ out.ok
    /\ \E i, j \in 1..Len(df.rows) :
          /\ i < j
          /\ df.rows[i].stock_id = df.rows[j].stock_id
          /\ df.rows[i].datetime > df.rows[j].datetime
    /\ \E i \in 1..Len(df.rows) : df.rows[i].stock_id = "B"
    /\ \E r \in SeqToSet(out.rows) : r.target = 1
    /\ \E r \in SeqToSet(out.rows) : isna(r.target)

----------------------------------------------------------------------------
(* window_creator.create_windows_and_target                                *)

\* feature_cols: every column but the entity id and the target (line 207)
feature_cols(cols) == cols \ {"stock_id", "target"}

\* Lines 186-197: the table the windows are cut from.  Without a target
\* column a copy is labeled (None when labeling fails); with one the table
\* is only sorted.
\* The target is computed again even when the table carries one.
labeled_input_recomputed(d, pred_days) ==
    create_target(d, pred_days)

labeled_input(d, pred_days) ==
    IF "target" \notin d.cols
    THEN create_target(d, pred_days)
    ELSE IF "stock_id" \notin d.cols THEN KeyError
    ELSE Frame(d.cols, sort_values(d.rows))

\* window_df[feature_cols].isnull().values.any()
any_null_edges(window_df, fcols) ==
    \E i \in {1, Len(window_df)} : \E c \in fcols : isna(window_df[i][c])

any_null(window_df, fcols) ==
    \E i \in 1..Len(window_df) : \E c \in fcols : isna(window_df[i][c])

\* stock_df.loc[prediction_date, 'target']
target_at(stock_df, prediction_date) ==
    stock_df[CHOOSE i \in 1..Len(stock_df) :
                 stock_df[i].datetime = prediction_date].target

\* Lines 242-249: the columns added to the rows of a window.
window_columns_own_target(window_df, prediction_date, target_value) ==
    [i \in 1..Len(window_df) |->
        WithCol(WithCol(window_df[i], "time_idx", i - 1),
                "prediction_date", prediction_date)]

window_columns_from_one(window_df, prediction_date, target_value) ==
    [i \in 1..Len(window_df) |->
        WithCol(WithCol(WithCol(window_df[i], "time_idx", i),
                        "prediction_date", prediction_date),
                "target", target_value)]

window_columns(window_df, prediction_date, target_value) ==
    [i \in 1..Len(window_df) |->
        WithCol(WithCol(WithCol(window_df[i], "time_idx", i - 1),
                        "prediction_date", prediction_date),
                "target", target_value)]

\* One pass of the loop body, lines 225-251: the rows the window ending at
\* position end (1-based) appends, none when the window is skipped.
window_at(stock_df, end, size, fcols) ==
    LET start == end - (size - 1)
        prediction_date == stock_df[end].datetime
        target_value == target_at(stock_df, prediction_date)
        window_df == SubSeq(stock_df, start, end)
    IN  IF isna(target_value) THEN <<>>
        ELSE IF any_null(window_df, fcols) THEN <<>>
        ELSE window_columns(window_df, prediction_date, target_value)

\* range(window_size - 1, len(stock_df)), as 1-based positions
end_positions_skip_first(n, size) == (size + 1)..n

end_positions(n, size) == size..n

\* An entity with too few rows gives one window of all its rows.
stock_windows_short(stock_df, size, fcols) ==
    IF Len(stock_df) < size
    THEN window_at(stock_df, Len(stock_df), Len(stock_df), fcols)
    ELSE LET ends == end_positions(Len(stock_df), size)
         IN  Concat([k \in 1..Cardinality(ends) |->
                        window_at(stock_df, Min(ends) + k - 1, size, fcols)])

\* Lines 213-252 for one entity.
stock_windows(stock_df, size, fcols) ==
    IF Len(stock_df) < size THEN <<>>
    ELSE LET ends == end_positions(Len(stock_df), size)
         IN  Concat([k \in 1..Cardinality(ends) |->
                        window_at(stock_df, Min(ends) + k - 1, size, fcols)])

\* No window at all gives an empty table instead of None.
create_windows_and_target_empty(d, size, pred_days) ==
    LET t == labeled_input(d, pred_days)
    IN  IF ~t.ok THEN None
        ELSE LET stocks == unique_stocks(t.rows)
                 fcols == feature_cols(t.cols)
             IN  Frame(t.cols \cup {"time_idx", "prediction_date", "target"},
                       Concat([g \in 1..Len(stocks) |->
                                  stock_windows(stock_rows(t.rows, stocks[g]),
                                                size, fcols)]))

create_windows_and_target(d, size, pred_days) ==
    LET t == labeled_input(d, pred_days)
    IN  IF ~t.ok THEN t
        ELSE LET stocks == unique_stocks(t.rows)
                 fcols == feature_cols(t.cols)
                 all_windows_data ==
                     Concat([g \in 1..Len(stocks) |->
                                stock_windows(stock_rows(t.rows, stocks[g]),
                                              size, fcols)])
             IN  IF all_windows_data = <<>> THEN None
                 ELSE Frame(t.cols \cup {"time_idx", "prediction_date", "target"},
                            all_windows_data)

----------------------------------------------------------------------------
(* Inputs of create_windows_and_target: featured rows (close and MA_5),    *)
(* with the target column already computed or still absent.                *)

MaxWinRows == 4       \* rows of the first entity of a windowing input

WindowSizes == 2..(MaxWinRows - 1)

FeaturedRow(s, d, c, ma) ==
    [stock_id |-> s, datetime |-> d, close |-> c, MA_5 |-> ma]

\* MA_5 is null on the date nan_at, if that is a date of the rows.
MA5(d, nan_at) == IF d = nan_at THEN NaN ELSE 1

RECURSIVE FeaturedRows(_, _, _, _)
FeaturedRows(s, S, fc, nan_at) ==
    IF S = {} THEN <<>>
    ELSE LET d == Min(S)
         IN  <<FeaturedRow(s, d, fc[d], MA5(d, nan_at))>>
                 \o FeaturedRows(s, S \ {d}, fc, nan_at)

RECURSIVE TargetedRows(_, _, _, _)
TargetedRows(s, S, nan_at, ft) ==
    IF S = {} THEN <<>>
    ELSE LET d == Min(S)
         IN  <<WithCol(FeaturedRow(s, d, 1, MA5(d, nan_at)), "target", ft[d])>>
                 \o TargetedRows(s, S \ {d}, nan_at, ft)

WinDateSets(n) == {S \in SUBSET Dates : Cardinality(S) \in 1..n}

WinCloses == {1, 2}

\* Tables without a target column: the first entity on any dates, one of
\* its rows possibly without MA_5; the second entity on the first k days.
UnlabeledInput ==
    \E SA \in WinDateSets(MaxWinRows), SB \in OtherDates(MaxWinRows - 2) :
        \E fc \in [SA -> WinCloses], nan_at \in SA \cup {NaN} :
            df = Frame({"stock_id", "close", "MA_5"},
                       sort_index(FeaturedRows("A", SA, fc, nan_at)
                                  \o FeaturedRows("B", SB, [d \in SB |-> 1], NaN)))

\* Tables with a target column: both entities on their first days, the
\* first with any targets, the second with target 1.
LabeledInput ==
    \E n \in 1..MaxWinRows, SB \in OtherDates(MaxWinRows - 2) :
        \E ft \in [0..(n - 1) -> {NaN, 0, 1}], nan_at \in (0..(n - 1)) \cup {NaN} :
            df = Frame({"stock_id", "close", "MA_5", "target"},
                       sort_index(TargetedRows("A", 0..(n - 1), nan_at, ft)
                                  \o TargetedRows("B", SB, NaN, [d \in SB |-> 1])))

InitWindows ==
    /\ pc = "input"
    /\ UnlabeledInput \/ LabeledInput
    /\ prediction_days \in 1..MaxPred
    /\ window_size \in WindowSizes
    /\ work = None
    /\ out = None
    /\ prev = None
    /\ changed = NoKey
    /\ exit_code = NaN
    /\ saved = None

\* windowed_df = create_windows_and_target(df, window_size, prediction_days)
CreateWindows ==
    /\ pc = "input"
    /\ work' = labeled_input(df, prediction_days)
    /\ out' = create_windows_and_target(df, window_size, prediction_days)
    /\ pc' = "windowed"
    /\ UNCHANGED <<df, window_size, prediction_days, prev, changed,
                 exit_code, saved>>

NextWindows == CreateWindows

SpecWindows == InitWindows /\ [][NextWindows]_vars


----------------------------------------------------------------------------
(* Properties of create_windows_and_target, stated on its flat output and  *)
(* on the labeled table (work) the windows are cut from.                   *)

Windowed == pc = "windowed"

Features == work.cols \ {"stock_id", "target"}

EntityRowSet(s) == {r \in SeqToSet(work.rows) : r.stock_id = s}

\* The 1-based position of date d among the dates of entity s.
Pos(s, d) == Cardinality({x \in EntityRowSet(s) : x.datetime <= d})

\* The rows of the candidate window of entity s ending at date d.
WinSet(s, d) ==
    {x \in EntityRowSet(s) :
        /\ Pos(s, x.datetime) > Pos(s, d) - window_size
        /\ Pos(s, x.datetime) <= Pos(s, d)}

Complete(x) == \A c \in Features : ~isna(x[c])

Eligible(s, d) ==
    /\ Pos(s, d) >= window_size
    /\ ~isna(RowOf(work, s, d).target)
    /\ \A x \in WinSet(s, d) : Complete(x)

Expected == {<<r.stock_id, r.datetime>> : r \in
                {x \in SeqToSet(work.rows) : Eligible(x.stock_id, x.datetime)}}

WindowKeys == {<<out.rows[i].stock_id, out.rows[i].prediction_date>> :
                  i \in 1..Len(out.rows)}

\* The output rows of one window, in output order.
WindowRows(k) ==
    LET In(r) == r.stock_id = k[1] /\ r.prediction_date = k[2]
    IN  SelectSeq(out.rows, In)

\* C4: no emitted window has a null target on its prediction_date row or
\* a null in any feature column of any of its rows.
C4_NoNullInEmittedWindow ==
    (Windowed /\ out.ok) =>
        \A i \in 1..Len(out.rows) :
            /\ ~isna(out.rows[i].target)
            /\ ~isna(RowOf(work, out.rows[i].stock_id,
                           out.rows[i].prediction_date).target)
            /\ \A c \in Features : ~isna(out.rows[i][c])

\* A candidate window of three rows whose middle row alone has a null
\* feature, with a labeled last row, was not emitted.
C4_Witness ==
    /\ Windowed
    /\ window_size = 3
    /\ \E r \in SeqToSet(work.rows) :
          /\ Pos(r.stock_id, r.datetime) >= 3
          /\ ~isna(r.target)
          /\ Complete(r)
          /\ \E x, y \in WinSet(r.stock_id, r.datetime) :
                /\ x.datetime < y.datetime /\ y.datetime < r.datetime
                /\ Complete(x) /\ ~Complete(y)
          /\ <<r.stock_id, r.datetime>> \notin WindowKeys

\* C5: exactly one window for every position end in W-1..n-1 of every
\* entity whose row at end has a target and whose W rows hold no null
\* feature, nothing else, in ascending prediction_date order per entity;
\* the output has (number of such positions) x W rows and no
\* (entity, prediction_date, time_idx) twice.
C5_ExactlyTheEligibleWindows ==
    Windowed =>
        /\ out.ok <=> Expected # {}
        /\ WindowKeys = Expected
        /\ Len(out.rows) = Cardinality(Expected) * window_size
        /\ \A i, j \in 1..Len(out.rows) :
              /\ (i < j /\ out.rows[i].stock_id = out.rows[j].stock_id) =>
                    out.rows[i].prediction_date <= out.rows[j].prediction_date
              /\ (i # j) =>
                    <<out.rows[i].stock_id, out.rows[i].prediction_date,
                      out.rows[i].time_idx>> #
                    <<out.rows[j].stock_id, out.rows[j].prediction_date,
                      out.rows[j].time_idx>>

\* Two entities contribute windows, one of them two windows, and some
\* candidate window was skipped.
C5_Witness ==
    /\ Windowed
    /\ out.ok
    /\ \E k1, k2, k3 \in WindowKeys : k1[1] # k2[1] /\ k1[1] = k3[1] /\ k1[2] # k3[2]
    /\ \E r \in SeqToSet(work.rows) :
          /\ Pos(r.stock_id, r.datetime) >= window_size
          /\ ~Eligible(r.stock_id, r.datetime)

\* C6: every window has exactly window_size rows, with time_idx 0, 1, ...,
\* window_size - 1 in ascending date order of its rows.
C6_WindowLengthAndTimeIdx ==
    (Windowed /\ out.ok) =>
        \A k \in WindowKeys :
            LET w == WindowRows(k)
            IN  /\ Len(w) = window_size
                /\ \A i \in 1..Len(w) : w[i].time_idx = i - 1
                /\ \A i \in 1..(Len(w) - 1) : w[i].datetime < w[i + 1].datetime

C6_Witness ==
    /\ Windowed
    /\ out.ok
    /\ window_size = 3
    /\ Cardinality(WindowKeys) >= 2

\* C7: all rows of a window carry one prediction_date, the date of the
\* window's last row, and one target in {0, 1}, the labeler's target of
\* that last row.
C7_OnePredictionDateAndTarget ==
    (Windowed /\ out.ok) =>
        \A k \in WindowKeys :
            LET w == WindowRows(k)
            IN  \A i \in 1..Len(w) :
                    /\ w[i].prediction_date = w[Len(w)].datetime
                    /\ w[Len(w)].time_idx = window_size - 1
                    /\ w[i].target \in {0, 1}
                    /\ w[i].target = RowOf(work, k[1], k[2]).target

\* A row of an emitted window whose own label differs from the window's.
C7_Witness ==
    /\ Windowed
    /\ out.ok
    /\ \E i \in 1..Len(out.rows) :
          /\ out.rows[i].datetime # out.rows[i].prediction_date
          /\ RowOf(work, out.rows[i].stock_id, out.rows[i].datetime).target #
             out.rows[i].target
          /\ "target" \notin df.cols


\* The label the forward lookup gives row r of the input.
ComputedLabel(r) ==
    IF FutureRows(df.rows, r, prediction_days) = {} THEN NaN
    ELSE IF FirstFuture(df.rows, r, prediction_days).close > r.close THEN 1 ELSE 0

\* C27: create_windows_and_target labels its input exactly when the input
\* has no target column.  A target column that is present is used as given,
\* whatever prediction_days is; an absent one is computed by create_target
\* before any window is cut, and when create_target fails the call returns
\* None.
C27_LabelsOnlyWhenTargetAbsent ==
    Windowed =>
        /\ "target" \in df.cols =>
              /\ work.ok
              /\ \A r \in SeqToSet(df.rows) :
                    RowOf(work, r.stock_id, r.datetime).target = r.target
              /\ \A i \in 1..Len(out.rows) :
                    out.rows[i].target =
                        RowOf(df, out.rows[i].stock_id,
                              out.rows[i].prediction_date).target
        /\ "target" \notin df.cols =>
              /\ ~work.ok => out = None
              /\ work.ok =>
                    \A r \in SeqToSet(df.rows) :
                        RowOf(work, r.stock_id, r.datetime).target = ComputedLabel(r)

\* A window was emitted with the given target of its prediction row, which
\* is not the label the lookup would compute.
C27_Witness ==
    /\ Windowed
    /\ "target" \in df.cols
    /\ out.ok
    /\ \E i \in 1..Len(out.rows) :
          LET r == RowOf(df, out.rows[i].stock_id, out.rows[i].prediction_date)
          IN  /\ out.rows[i].target = r.target
              /\ r.target # ComputedLabel(r)

\* Windows were cut from a table labeled inside the call.
LabeledInsideTheCall ==
    /\ Windowed
    /\ "target" \notin df.cols
    /\ out.ok
    /\ \E r \in SeqToSet(work.rows) : r.target = 1

\* Labeling failed inside the call.
LabelingFailedInsideTheCall ==
    /\ Windowed
    /\ "target" \notin df.cols
    /\ ~work.ok
    /\ Len(df.rows) >= 2

\* C13: an entity with fewer than window_size rows has no row in the
\* output, and every eligible window of the other entities is emitted.
C13_ShortEntityYieldsNoWindow ==
    Windowed =>
        \A s \in {r.stock_id : r \in SeqToSet(df.rows)} :
            Cardinality({r \in SeqToSet(df.rows) : r.stock_id = s}) < window_size =>
                /\ \A i \in 1..Len(out.rows) : out.rows[i].stock_id # s
                /\ \A k \in Expected : k[1] # s => k \in WindowKeys

\* An entity with at least one row and fewer than window_size rows, its
\* last row labeled and complete, beside an entity with an emitted window.
C13_Witness ==
    /\ Windowed
    /\ out.ok
    /\ \E s \in {r.stock_id : r \in SeqToSet(work.rows)} :
          /\ Cardinality(EntityRowSet(s)) < window_size
          /\ \E r \in EntityRowSet(s) :
                /\ Pos(s, r.datetime) = Cardinality(EntityRowSet(s))
                /\ ~isna(r.target) /\ Complete(r)
          /\ \E k \in WindowKeys : k[1] # s


----------------------------------------------------------------------------
(* anomaly_handler.handle_missing_trading_days                             *)
(*                                                                         *)
(* Day 0 is Monday 2023-01-02.  Numeric values are held in units of        *)
(* 1/Unit, so that every interpolated value of the model is exact.         *)

\* USFederalHolidayCalendar: 2023-01-02 (New Year's Day, observed) and
\* 2023-01-16 (Martin Luther King Jr. Day)
Holidays == {0, 14}

Unit == 2 * 2 * 3 * 5 * 7

numeric_cols == {"open", "high", "low", "close", "volume"}

\* Business days without a holiday calendar.
weekdays_only(d) == d % 7 \notin {5, 6}

\* CustomBusinessDay(calendar=USFederalHolidayCalendar())
us_business_days(d) == d % 7 \notin {5, 6} /\ d \notin Holidays

\* pd.date_range(start, end, freq=us_business_days), ascending
RECURSIVE date_range(_, _)
date_range(start, end) ==
    IF start > end THEN <<>>
    ELSE (IF us_business_days(start) THEN <<start>> ELSE <<>>)
             \o date_range(start + 1, end)

\* stock_df.reindex(expected_date_range), then stock_id set on every row:
\* the row of each date when there is one, a row of NaN otherwise.
reindex(stock_df, range, stock_id, cols) ==
    [i \in 1..Len(range) |->
        IF \E j \in 1..Len(stock_df) : stock_df[j].datetime = range[i]
        THEN stock_df[CHOOSE j \in 1..Len(stock_df) :
                          stock_df[j].datetime = range[i]]
        ELSE [c \in cols \cup {"datetime"} |->
                 IF c = "datetime" THEN range[i]
                 ELSE IF c = "stock_id" THEN stock_id ELSE NaN]]

\* The x coordinate of row i under method='time': its date.
time_position(rows, i) == rows[i].datetime

\* The x coordinate of row i: method='linear' spaces the rows equally.
linear_position(rows, i) == i

\* Every cell between two rows is set to the mean of its neighbours.
interpolate_smoothing(rows, c) ==
    [i \in 1..Len(rows) |->
        IF i = 1 \/ i = Len(rows) THEN rows[i][c]
        ELSE (rows[i - 1][c] + rows[i + 1][c]) \div 2]

\* interpolate(method='linear', limit_direction='forward') of one column:
\* a NaN between two values is filled on the line through them, a NaN
\* after the last value with that value, a NaN before the first stays.
interpolate(rows, c) ==
    [i \in 1..Len(rows) |->
        IF ~isna(rows[i][c]) THEN rows[i][c]
        ELSE LET before == {j \in 1..(i - 1) : ~isna(rows[j][c])}
                 after == {j \in (i + 1)..Len(rows) : ~isna(rows[j][c])}
             IN  IF before = {} THEN NaN
                 ELSE IF after = {} THEN rows[Max(before)][c]
                 ELSE LET p == Max(before)
                          q == Min(after)
                          xp == linear_position(rows, p)
                          xq == linear_position(rows, q)
                          x == linear_position(rows, i)
                      IN  rows[p][c] +
                          ((rows[q][c] - rows[p][c]) * (x - xp)) \div (xq - xp)]

\* bfill of one column given as a sequence of values
bfill(values) ==
    [i \in 1..Len(values) |->
        IF ~isna(values[i]) THEN values[i]
        ELSE LET after == {j \in (i + 1)..Len(values) : ~isna(values[j])}
             IN  IF after = {} THEN NaN ELSE values[Min(after)]]

\* Lines 104-105 on every column to interpolate.
interpolate_and_bfill(rows, cols_to_interpolate) ==
    LET filled == [c \in cols_to_interpolate |-> bfill(interpolate(rows, c))]
    IN  [i \in 1..Len(rows) |->
            [c \in DOMAIN rows[i] |->
                IF c \in cols_to_interpolate THEN filled[c][i] ELSE rows[i][c]]]

\* No row is dropped.
dropna_keeps_all(rows, cols) == rows

\* dropna(subset=cols)
dropna(rows, cols) ==
    LET Keep(r) == \A c \in cols : ~isna(r[c]) IN SelectSeq(rows, Keep)

\* An entity with a single row is given up.
fill_stock_drops_single(stock_df, stock_id, cols) ==
    IF Len(stock_df) = 1 THEN <<>>
    ELSE LET expected_date_range ==
                 date_range(Min({stock_df[i].datetime : i \in 1..Len(stock_df)}),
                            Max({stock_df[i].datetime : i \in 1..Len(stock_df)}))
             stock_df_reindexed == reindex(stock_df, expected_date_range, stock_id, cols)
             cols_to_interpolate == numeric_cols \cap cols
         IN  dropna(IF cols_to_interpolate # {} /\
                       (\E i \in 1..Len(stock_df_reindexed) :
                            isna(stock_df_reindexed[i].open))
                    THEN interpolate_and_bfill(stock_df_reindexed, cols_to_interpolate)
                    ELSE stock_df_reindexed,
                    cols_to_interpolate)

\* Lines 71-111 for one entity.
fill_stock(stock_df, stock_id, cols) ==
    LET start_date == Min({stock_df[i].datetime : i \in 1..Len(stock_df)})
        end_date == Max({stock_df[i].datetime : i \in 1..Len(stock_df)})
        expected_date_range == date_range(start_date, end_date)
        stock_df_reindexed == reindex(stock_df, expected_date_range, stock_id, cols)
        missing_rows_mask_any ==
            \E i \in 1..Len(stock_df_reindexed) : isna(stock_df_reindexed[i].open)
        cols_to_interpolate == numeric_cols \cap cols
        interpolated ==
            IF cols_to_interpolate # {} /\ missing_rows_mask_any
            THEN interpolate_and_bfill(stock_df_reindexed, cols_to_interpolate)
            ELSE stock_df_reindexed
    IN  dropna(interpolated, cols_to_interpolate)

\* One entity left without a row makes the whole call return None.
handle_missing_aborts(d) ==
    IF d.rows = <<>> THEN d
    ELSE LET stocks == unique_stocks(d.rows)
             all_stocks_filled ==
                 [g \in 1..Len(stocks) |->
                     fill_stock(stock_rows(d.rows, stocks[g]), stocks[g], d.cols)]
         IN  IF \E g \in 1..Len(stocks) : all_stocks_filled[g] = <<>>
             THEN None
             ELSE Frame(d.cols, sort_index(Concat(all_stocks_filled)))

\* A table without an open column is handed back as it came.
handle_missing_skips_without_open(d) ==
    IF d.rows = <<>> THEN d
    ELSE IF "stock_id" \notin d.cols THEN KeyError
    ELSE IF "open" \notin d.cols THEN d
    ELSE LET stocks == unique_stocks(d.rows)
             all_stocks_filled ==
                 [g \in 1..Len(stocks) |->
                     fill_stock(stock_rows(d.rows, stocks[g]), stocks[g], d.cols)]
         IN  Frame(d.cols, sort_index(Concat(all_stocks_filled)))

\* df.empty: an axis of length 0, no row or no column.
empty(d) == d.rows = <<>> \/ d.cols = {}

\* combined_filled_df.index.name = original_index_name (lines 62, 130), for
\* a table whose index name is kept.
keep_index_name(t, d) ==
    IF "index_name" \in DOMAIN d
    THEN [k \in DOMAIN t \cup {"index_name"} |->
             IF k = "index_name" THEN d.index_name ELSE t[k]]
    ELSE t

\* An empty table is refused.
handle_missing_rejects_empty(d) ==
    IF empty(d) THEN None
    ELSE IF "stock_id" \notin d.cols \/ "open" \notin d.cols THEN KeyError
    ELSE LET stocks == unique_stocks(d.rows)
             all_stocks_filled ==
                 [g \in 1..Len(stocks) |->
                     fill_stock(stock_rows(d.rows, stocks[g]), stocks[g], d.cols)]
         IN  keep_index_name(Frame(d.cols, sort_index(Concat(all_stocks_filled))), d)

\* Line 64 raises without a stock_id column, line 93 without an open.
handle_missing_trading_days(d) ==
    IF empty(d) THEN d
    ELSE IF "stock_id" \notin d.cols \/ "open" \notin d.cols THEN KeyError
    ELSE LET stocks == unique_stocks(d.rows)
             all_stocks_filled ==
                 [g \in 1..Len(stocks) |->
                     fill_stock(stock_rows(d.rows, stocks[g]), stocks[g], d.cols)]
         IN  keep_index_name(Frame(d.cols, sort_index(Concat(all_stocks_filled))), d)

----------------------------------------------------------------------------
(* Inputs of handle_missing_trading_days: OHLCV rows unique by (entity,    *)
(* date), on any day of the calendar, sorted by date; at most one row of   *)
(* the first entity has a null cell.                                       *)

GapMaxDay == 8        \* gap filler inputs use the days 0..GapMaxDay
GapMaxRows == 3       \* rows of the first entity of a gap filler input

GapCols == numeric_cols \cup {"stock_id"}

\* A fully populated row at price level v.
OhlcvRow(s, d, v) ==
    [stock_id |-> s, datetime |-> d, open |-> v * Unit, high |-> (v + 1) * Unit,
     low |-> (v - 1) * Unit, close |-> v * Unit, volume |-> 100 * v * Unit]

\* The kinds of input row: populated at level 1 or 3, or at level 1 with a
\* null open or a null close.
Levels == {"low", "high"}

Defects == {"no_open", "no_close"}

KindRow(s, d, k) ==
    IF k = "low" THEN OhlcvRow(s, d, 1)
    ELSE IF k = "high" THEN OhlcvRow(s, d, 3)
    ELSE IF k = "no_open" THEN [OhlcvRow(s, d, 1) EXCEPT !.open = NaN]
    ELSE [OhlcvRow(s, d, 1) EXCEPT !.close = NaN]

RECURSIVE KindRows(_, _, _)
KindRows(s, S, f) ==
    IF S = {} THEN <<>>
    ELSE LET d == Min(S)
         IN  <<KindRow(s, d, f[d])>> \o KindRows(s, S \ {d}, f)

GapDateSets == {S \in SUBSET (0..GapMaxDay) : Cardinality(S) \in 1..GapMaxRows}

\* The second entity: absent, or two populated rows around a missing day.
OtherEntity == {{}, {1, 3}}

InitGap ==
    /\ pc = "input"
    /\ \E SA \in GapDateSets, SB \in OtherEntity :
          \E f \in [SA -> Levels], bad \in SA \cup {NaN}, defect \in Defects :
              df = Frame(GapCols,
                         sort_index(KindRows("A", SA,
                                             [d \in SA |-> IF d = bad THEN defect
                                                                      ELSE f[d]])
                                    \o KindRows("B", SB, [d \in SB |-> "high"])))
    /\ prediction_days = 0
    /\ window_size = 0
    /\ work = None
    /\ out = None
    /\ prev = None
    /\ changed = NoKey
    /\ exit_code = NaN
    /\ saved = None

\* filled_df = handle_missing_trading_days(df)
HandleMissing ==
    /\ pc = "input"
    /\ out' = handle_missing_trading_days(df)
    /\ pc' = "filled"
    /\ UNCHANGED <<df, window_size, prediction_days, work, prev, changed,
                 exit_code, saved>>

\* handle_missing_trading_days applied to its own output
HandleMissingAgain ==
    /\ pc = "filled"
    /\ prev' = out
    /\ out' = handle_missing_trading_days(out)
    /\ pc' = "refilled"
    /\ UNCHANGED <<df, window_size, prediction_days, work, changed,
                 exit_code, saved>>

NextGap == HandleMissing \/ HandleMissingAgain

SpecGap == InitGap /\ [][NextGap]_vars


----------------------------------------------------------------------------
(* Properties of handle_missing_trading_days.                              *)

Filled == pc \in {"filled", "refilled"}

RowsOfEntity(t, s) == {r \in SeqToSet(t.rows) : r.stock_id = s}

DatesOfEntity(t, s) == {r.datetime : r \in RowsOfEntity(t, s)}

Entities(t) == {r.stock_id : r \in SeqToSet(t.rows)}

BusinessDaysBetween(a, b) == {d \in (a + 1)..(b - 1) : us_business_days(d)}

Populated(r) == \A c \in numeric_cols : ~isna(r[c])

\* C8: in the output, for every entity, every business day between the
\* entity's first and last output date is present, whatever the input.
C8_NoGapInOutput ==
    Filled =>
        \A s \in Entities(out) :
            \A d \in BusinessDaysBetween(Min(DatesOfEntity(out, s)),
                                         Max(DatesOfEntity(out, s))) :
                HasRow(out, s, d)

\* The same for input tables without a null cell.
NoGapForPopulatedInput ==
    (pc = "filled" /\ \A r \in SeqToSet(df.rows) : Populated(r)) =>
        \A s \in Entities(out) :
            \A d \in BusinessDaysBetween(Min(DatesOfEntity(out, s)),
                                         Max(DatesOfEntity(out, s))) :
                HasRow(out, s, d)

\* Rows p and q of one entity bound a run of missing business days: both
\* are dated on business days and the entity has no row on a business day
\* between them, of which there is at least one.
BoundsRun(p, q) ==
    /\ p.stock_id = q.stock_id
    /\ p.datetime < q.datetime
    /\ us_business_days(p.datetime) /\ us_business_days(q.datetime)
    /\ BusinessDaysBetween(p.datetime, q.datetime) # {}
    /\ \A d \in BusinessDaysBetween(p.datetime, q.datetime) :
          ~HasRow(df, p.stock_id, d)

\* C9: the k-th of m missing business days between present rows with
\* values a and b gets a + k*(b-a)/(m+1) in every numeric column.
C9_LinearInterpolation ==
    pc = "filled" =>
        \A p, q \in SeqToSet(df.rows) :
            BoundsRun(p, q) =>
                LET run == BusinessDaysBetween(p.datetime, q.datetime)
                    m == Cardinality(run)
                IN  \A d \in run :
                        LET k == Cardinality({x \in run : x <= d})
                        IN  /\ (Populated(p) /\ Populated(q)) =>
                                   HasRow(out, p.stock_id, d)
                            /\ \A c \in numeric_cols :
                                  (/\ ~isna(p[c]) /\ ~isna(q[c])
                                   /\ HasRow(out, p.stock_id, d)) =>
                                      RowOf(out, p.stock_id, d)[c] * (m + 1) =
                                          p[c] * (m + 1) + k * (q[c] - p[c])

\* Two populated rows with different closes bound a run of two missing
\* business days that spans a weekend, and a run of a single missing day.
C9_Witness ==
    /\ pc = "filled"
    /\ \E p, q \in SeqToSet(df.rows) :
          /\ BoundsRun(p, q) /\ Populated(p) /\ Populated(q)
          /\ p.close # q.close
          /\ Cardinality(BusinessDaysBetween(p.datetime, q.datetime)) = 2
          /\ q.datetime - p.datetime > 3
    /\ \E p, q \in SeqToSet(df.rows) :
          /\ BoundsRun(p, q) /\ Populated(p) /\ Populated(q)
          /\ p.close # q.close
          /\ Cardinality(BusinessDaysBetween(p.datetime, q.datetime)) = 1

\* An entity of the input without a missing business day between its
\* first and last date, its rows dated on business days and populated.
ZeroGaps(s) ==
    /\ \A r \in RowsOfEntity(df, s) : us_business_days(r.datetime) /\ Populated(r)
    /\ \A d \in BusinessDaysBetween(Min(DatesOfEntity(df, s)),
                                    Max(DatesOfEntity(df, s))) :
          HasRow(df, s, d)

\* C10: an entity with zero missing business days keeps its rows (dates,
\* values, columns), also beside entities with gaps; hence applying the
\* function to its own output changes nothing.
C10_UnchangedAndIdempotent ==
    /\ pc = "filled" =>
          \A s \in Entities(df) :
              ZeroGaps(s) => RowsOfEntity(out, s) = RowsOfEntity(df, s)
    /\ pc = "refilled" =>
          (out.cols = prev.cols /\ SeqToSet(out.rows) = SeqToSet(prev.rows))

\* The first half of C10 alone.
UnchangedWithoutGaps ==
    pc = "filled" =>
        \A s \in Entities(df) :
            ZeroGaps(s) => RowsOfEntity(out, s) = RowsOfEntity(df, s)


\* C29: handle_missing_trading_days writes only null cells: an input row
\* found in the output has its entity id and every non-null numeric value
\* unchanged, and every input row dated on a business day with all numeric
\* columns set is in the output exactly as it was, gaps in its entity or
\* not.
C29_InputValuesUntouched ==
    pc = "filled" =>
        \A r \in SeqToSet(df.rows) :
            /\ HasRow(out, r.stock_id, r.datetime) =>
                  \A c \in numeric_cols :
                      ~isna(r[c]) => RowOf(out, r.stock_id, r.datetime)[c] = r[c]
            /\ (r.datetime % 7 \notin {5, 6} /\ r.datetime \notin Holidays
                   /\ \A c \in numeric_cols : ~isna(r[c])) =>
                  /\ HasRow(out, r.stock_id, r.datetime)
                  /\ RowOf(out, r.stock_id, r.datetime) = r

\* An entity of three populated input rows with a row filled in between
\* them.
C29_Witness ==
    /\ pc = "filled"
    /\ \E s \in Entities(df) :
          /\ Cardinality(DatesOfEntity(df, s)) = 3
          /\ \A r \in RowsOfEntity(df, s) :
                Populated(r) /\ HasRow(out, s, r.datetime)
          /\ \E d \in DatesOfEntity(out, s) :
                /\ ~HasRow(df, s, d)
                /\ Min(DatesOfEntity(df, s)) < d
                /\ d < Max(DatesOfEntity(df, s))

\* C22: every date of an entity in the output is neither a weekend day nor
\* a holiday and lies between the first and the last date of that entity
\* in the input.
C22_OnlyBusinessDaysInRange ==
    pc = "filled" =>
        \A r \in SeqToSet(out.rows) :
            /\ r.datetime % 7 \notin {5, 6}
            /\ r.datetime \notin Holidays
            /\ r.stock_id \in Entities(df)
            /\ Min(DatesOfEntity(df, r.stock_id)) <= r.datetime
            /\ r.datetime <= Max(DatesOfEntity(df, r.stock_id))

\* A row was added on a Monday for an entity whose input spans a weekend
\* and starts on the holiday.
C22_Witness ==
    /\ pc = "filled"
    /\ \E r \in SeqToSet(out.rows) :
          /\ ~HasRow(df, r.stock_id, r.datetime)
          /\ r.datetime = 7
          /\ HasRow(df, r.stock_id, 0)
          /\ \A d \in {0, 5, 6} : ~HasRow(out, r.stock_id, d)

\* An entity that cannot be filled: some numeric column is null in every
\* one of its rows dated on a business day (or it has no such row).
Unfillable(s) ==
    \E c \in numeric_cols :
        \A r \in RowsOfEntity(df, s) : us_business_days(r.datetime) => isna(r[c])

\* The entity's populated business-day rows are in the output as they
\* were, with every business day between its first and last output date.
FilledRowsProduced(t) ==
    /\ \A r \in RowsOfEntity(df, t) :
          us_business_days(r.datetime) => r \in RowsOfEntity(out, t)
    /\ t \in Entities(out) =>
          \A d \in BusinessDaysBetween(Min(DatesOfEntity(out, t)),
                                       Max(DatesOfEntity(out, t))) :
              HasRow(out, t, d) /\ Populated(RowOf(out, t, d))

\* C16: an entity that cannot be filled is absent from the output, the
\* call still returns a table, and the filled rows of every entity without
\* a null cell are produced.
C16_FailureIsolatedPerEntity ==
    pc = "filled" =>
        /\ out.ok
        /\ out.cols = df.cols
        /\ \A s \in Entities(df) :
              /\ Unfillable(s) => s \notin Entities(out)
              /\ (~Unfillable(s) /\ \A r \in RowsOfEntity(df, s) : Populated(r)) =>
                     (s \in Entities(out) /\ FilledRowsProduced(s))

\* One entity with a business-day row cannot be filled and is absent; the
\* other has a missing day filled in.
C16_Witness ==
    /\ pc = "filled"
    /\ \E s, t \in Entities(df) :
          /\ Unfillable(s)
          /\ \E r \in RowsOfEntity(df, s) : us_business_days(r.datetime)
          /\ s \notin Entities(out)
          /\ t \in Entities(out)
          /\ Cardinality(RowsOfEntity(out, t)) > Cardinality(RowsOfEntity(df, t))

SingleRow(s) == Cardinality(RowsOfEntity(df, s)) = 1

\* C17 as stated: an entity whose input is a single row is dropped from
\* the output.
C17_Original ==
    pc = "filled" =>
        \A s \in Entities(df) : SingleRow(s) => s \notin Entities(out)

\* C17 as amended: an entity whose input is a single row is dropped only
\* when that row is dated off the business-day calendar or has a null
\* numeric column; a populated business-day row is returned unchanged.
\* The call returns a table either way, with the rows of the others.
C17_SingleRowEntity ==
    pc = "filled" =>
        /\ out.ok
        /\ \A s \in Entities(df) :
              SingleRow(s) =>
                  LET r == CHOOSE x \in RowsOfEntity(df, s) : TRUE
                  IN  IF us_business_days(r.datetime) /\ Populated(r)
                      THEN RowsOfEntity(out, s) = {r}
                      ELSE s \notin Entities(out)
        /\ \A t \in Entities(df) :
              (~SingleRow(t) /\ \A r \in RowsOfEntity(df, t) : Populated(r)) =>
                  FilledRowsProduced(t)

\* A single populated business-day row is kept beside a filled entity.
C17_Witness ==
    /\ pc = "filled"
    /\ \E s, t \in Entities(df) :
          /\ SingleRow(s)
          /\ RowsOfEntity(out, s) = RowsOfEntity(df, s)
          /\ ~SingleRow(t)
          /\ Cardinality(RowsOfEntity(out, t)) > Cardinality(RowsOfEntity(df, t))

\* A single row with a null cell, and a single row dated on a weekend, are
\* dropped.
SingleRowDropped ==
    /\ pc = "filled"
    /\ \E s \in Entities(df) :
          /\ SingleRow(s)
          /\ s \notin Entities(out)
          /\ \E r \in RowsOfEntity(df, s) : us_business_days(r.datetime)


----------------------------------------------------------------------------
(* feature_engineer: daily returns, moving averages, volume indicators.    *)
(*                                                                         *)
(* Ratios and means are held in units of 1/Unit like the prices, a         *)
(* quotient that is no multiple of that unit rounded down to it.           *)

\* The position of row i of the sorted rows inside its entity's group.
group_position(sorted, i) ==
    Cardinality({j \in 1..i : sorted[j].stock_id = sorted[i].stock_id})

\* close.pct_change() over the whole frame, entity boundaries ignored
pct_change_ungrouped(sorted, i) ==
    IF i = 1 THEN NaN
    ELSE ((sorted[i].close - sorted[i - 1].close) * Unit) \div sorted[i - 1].close

\* The first row of a group gets a return of 0.
pct_change_first_zero(sorted, i) ==
    IF group_position(sorted, i) = 1 THEN 0
    ELSE ((sorted[i].close - sorted[i - 1].close) * Unit) \div sorted[i - 1].close

\* groupby('stock_id')['close'].pct_change() at row i of the sorted rows:
\* the rows of a group are adjacent, the first of each group gets NaN.
pct_change(sorted, i) ==
    IF group_position(sorted, i) = 1 THEN NaN
    ELSE ((sorted[i].close - sorted[i - 1].close) * Unit) \div sorted[i - 1].close

calculate_daily_returns(d) ==
    IF "close" \notin d.cols \/ "stock_id" \notin d.cols THEN d
    ELSE LET sorted == sort_values(d.rows)
         IN  Frame(d.cols \cup {"daily_return"},
                   [i \in 1..Len(sorted) |->
                       WithCol(sorted[i], "daily_return", pct_change(sorted, i))])

RECURSIVE SumCol(_, _, _, _)
SumCol(rows, c, from, to) ==
    IF from > to THEN 0 ELSE rows[to][c] + SumCol(rows, c, from, to - 1)

\* rolling(window, min_periods=window).mean(): null until the window is full
rolling_mean_full_window(sorted, c, window, i) ==
    LET k == group_position(sorted, i)
    IN  IF k < window THEN NaN
        ELSE SumCol(sorted, c, i - window + 1, i) \div window

\* groupby('stock_id')[c].transform(rolling(window, min_periods=1).mean())
\* at row i of the sorted rows: the mean of the last window rows of the
\* group, of all its rows so far when there are fewer.
rolling_mean(sorted, c, window, i) ==
    LET k == group_position(sorted, i)
        n == IF k < window THEN k ELSE window
    IN  SumCol(sorted, c, i - n + 1, i) \div n

ma_col_name(window) == "MA_" \o ToString(window)

vol_col_name(window) == "avg_volume_" \o ToString(window)

\* The loop of lines 63-69 over the first n window lengths.
RECURSIVE add_moving_averages(_, _, _)
add_moving_averages(sorted, windows, n) ==
    IF n = 0 THEN sorted
    ELSE LET before == add_moving_averages(sorted, windows, n - 1)
         IN  [i \in 1..Len(before) |->
                 WithCol(before[i], ma_col_name(windows[n]),
                         rolling_mean(sorted, "close", windows[n], i))]

calculate_moving_averages(d, windows) ==
    IF "close" \notin d.cols \/ "stock_id" \notin d.cols THEN d
    ELSE Frame(d.cols \cup {ma_col_name(windows[n]) : n \in 1..Len(windows)},
               add_moving_averages(sort_values(d.rows), windows, Len(windows)))

calculate_volume_indicators(d, window) ==
    IF "volume" \notin d.cols \/ "stock_id" \notin d.cols THEN d
    ELSE LET sorted == sort_values(d.rows)
         IN  Frame(d.cols \cup {vol_col_name(window)},
                   [i \in 1..Len(sorted) |->
                       WithCol(sorted[i], vol_col_name(window),
                               rolling_mean(sorted, "volume", window, i))])

\* A table without close or volume is refused.
engineer_features_strict(d) ==
    IF ~({"stock_id", "close", "volume"} \subseteq d.cols) THEN KeyError
    ELSE calculate_volume_indicators(
             calculate_moving_averages(
                 calculate_daily_returns(Frame(d.cols, sort_values(d.rows))),
                 <<5, 20>>),
             7)

\* Lines 121-129: the sort at line 121 raises without a stock_id column.
engineer_features(d) ==
    IF "stock_id" \notin d.cols THEN KeyError
    ELSE calculate_volume_indicators(
             calculate_moving_averages(
                 calculate_daily_returns(Frame(d.cols, sort_values(d.rows))),
                 <<5, 20>>),
             7)

----------------------------------------------------------------------------
(* Inputs of the feature functions: rows with close and volume, unique by  *)
(* (entity, date), closes and volumes set, listed by date.                 *)

FeatMaxRows == 4      \* rows of the first entity of a feature input

FeatLevels == {1, 2, 4}

\* The window lengths of test_calculate_moving_averages
MAWindows == <<2, 3>>

\* The volume on day d: flat, alternating, or high on the first day only.
VolumeLevel(k, d) ==
    IF k = 1 THEN 1
    ELSE IF k = 2 THEN 1 + 2 * (d % 2)
    ELSE IF d = 0 THEN 3 ELSE 1

FeatRow(s, d, c, v) ==
    [stock_id |-> s, datetime |-> d, close |-> c * Unit, volume |-> v * Unit]

RECURSIVE FeatRows(_, _, _, _)
FeatRows(s, S, fc, fv) ==
    IF S = {} THEN <<>>
    ELSE LET d == Min(S)
         IN  <<FeatRow(s, d, fc[d], fv[d])>> \o FeatRows(s, S \ {d}, fc, fv)

InitFeatures ==
    /\ pc = "input"
    /\ \E n \in 1..FeatMaxRows, SB \in OtherDates(2) :
          \E fc \in [0..(n - 1) -> FeatLevels], k \in 1..3 :
              df = Frame({"stock_id", "close", "volume"},
                         sort_index(FeatRows("A", 0..(n - 1), fc,
                                             [d \in 0..(n - 1) |-> VolumeLevel(k, d)])
                                    \o FeatRows("B", SB, [d \in SB |-> 4 - 3 * d],
                                                [d \in SB |-> 2 + 4 * d])))
    /\ window_size \in {2, 3}
    /\ prediction_days = 0
    /\ work = None
    /\ out = None
    /\ prev = None
    /\ changed = NoKey
    /\ exit_code = NaN
    /\ saved = None

\* df = calculate_daily_returns(df)
CalculateDailyReturns ==
    /\ pc = "input"
    /\ out' = calculate_daily_returns(df)
    /\ pc' = "returns"
    /\ UNCHANGED <<df, window_size, prediction_days, work, prev, changed,
                   exit_code, saved>>

\* df = calculate_moving_averages(df, windows=[2, 3])
CalculateMovingAverages ==
    /\ pc = "input"
    /\ out' = calculate_moving_averages(df, MAWindows)
    /\ pc' = "averaged"
    /\ UNCHANGED <<df, window_size, prediction_days, work, prev, changed,
                   exit_code, saved>>

\* df = calculate_volume_indicators(df, window=window_size)
CalculateVolumeIndicators ==
    /\ pc = "input"
    /\ out' = calculate_volume_indicators(df, window_size)
    /\ pc' = "volumed"
    /\ UNCHANGED <<df, window_size, prediction_days, work, prev, changed,
                   exit_code, saved>>

\* featured_df = engineer_features(df)
EngineerFeatures ==
    /\ pc = "input"
    /\ out' = engineer_features(df)
    /\ pc' = "featured"
    /\ UNCHANGED <<df, window_size, prediction_days, work, prev, changed,
                   exit_code, saved>>

NextFeatures ==
    \/ CalculateDailyReturns
    \/ CalculateMovingAverages
    \/ CalculateVolumeIndicators
    \/ EngineerFeatures

SpecFeatures == InitFeatures /\ [][NextFeatures]_vars

----------------------------------------------------------------------------
(* Properties of the feature functions.                                    *)

\* The rows of r's entity in the input dated before r.
Earlier(r) ==
    {x \in SeqToSet(df.rows) : x.stock_id = r.stock_id /\ x.datetime < r.datetime}

\* The row of r's entity just before r.
Previous(r) == CHOOSE x \in Earlier(r) : \A y \in Earlier(r) : y.datetime <= x.datetime

\* The last L rows of r's entity up to r, all of them when there are fewer.
LastRows(r, L) ==
    {x \in SeqToSet(df.rows) :
        /\ x.stock_id = r.stock_id
        /\ x.datetime <= r.datetime
        /\ Cardinality({y \in Earlier(r) \cup {r} : y.datetime > x.datetime}) < L}

RECURSIVE SumOf(_, _)
SumOf(S, c) ==
    IF S = {} THEN 0
    ELSE LET x == CHOOSE y \in S : TRUE IN x[c] + SumOf(S \ {x}, c)

\* The output has the rows of the input, by (entity, date), plus columns.
SameRowsPlus(newcols) ==
    /\ out.ok
    /\ out.cols = df.cols \cup newcols
    /\ Len(out.rows) = Len(df.rows)
    /\ \A r \in SeqToSet(df.rows) :
          /\ HasRow(out, r.stock_id, r.datetime)
          /\ \A c \in df.cols : RowOf(out, r.stock_id, r.datetime)[c] = r[c]
    /\ \A i \in 1..(Len(out.rows) - 1) :
          \/ StockRank(out.rows[i].stock_id) < StockRank(out.rows[i + 1].stock_id)
          \/ /\ out.rows[i].stock_id = out.rows[i + 1].stock_id
             /\ out.rows[i].datetime < out.rows[i + 1].datetime

\* C19: per entity in date order, daily_return is null on the first row
\* and (close[i] - close[i-1]) / close[i-1] on every later row.
C19_DailyReturnPerEntity ==
    pc = "returns" =>
        /\ SameRowsPlus({"daily_return"})
        /\ \A r \in SeqToSet(df.rows) :
              LET o == RowOf(out, r.stock_id, r.datetime)
              IN  IF Earlier(r) = {} THEN isna(o.daily_return)
                  ELSE /\ ~isna(o.daily_return)
                       /\ o.daily_return * Previous(r).close =
                              (r.close - Previous(r).close) * Unit

\* Two entities with two or more rows each, the second one's first close
\* different from the first one's last close, a falling and a rising close.
C19_Witness ==
    /\ pc = "returns"
    /\ \E a, b \in SeqToSet(df.rows) :
          /\ a.stock_id = "A" /\ b.stock_id = "B"
          /\ Earlier(b) = {} /\ Earlier(a) # {}
          /\ \A x \in SeqToSet(df.rows) : x.stock_id = "A" => x.datetime <= a.datetime
          /\ a.close # b.close
          /\ \E b2 \in SeqToSet(df.rows) : b2.stock_id = "B" /\ Earlier(b2) # {}
    /\ \E r \in SeqToSet(out.rows) : ~isna(r.daily_return) /\ r.daily_return < 0
    /\ \E r \in SeqToSet(out.rows) : ~isna(r.daily_return) /\ r.daily_return > 0

----------------------------------------------------------------------------
(* data_pipeline.main, from the loaded table to the exit code.             *)

\* adjust_prices_for_splits_dividends: a placeholder, the table unchanged
adjust_prices_for_splits_dividends(d) == d

PipeMaxDay == 4       \* loaded tables use the days 0..PipeMaxDay
PipeMaxRows == 2      \* rows of the first entity of a loaded table

\* The loaded table: the first entity on any days, at most one of its rows
\* without a close; the second entity absent or as in OtherEntity.
\* The second entity of a run: absent, two rows around a missing day, or
\* two rows on adjacent days.
PipeOther == {{}, {1, 3}, {3, 4}}

InitPipeline ==
    /\ pc = "start"
    /\ \E SA \in {S \in SUBSET (0..PipeMaxDay) : Cardinality(S) \in 1..PipeMaxRows},
          SB \in PipeOther :
          \E f \in [SA -> Levels], bad \in SA \cup {NaN} :
              df = Frame(GapCols,
                         sort_index(KindRows("A", SA,
                                             [d \in SA |-> IF d = bad THEN "no_close"
                                                                      ELSE f[d]])
                                    \o KindRows("B", SB, [d \in SB |-> "high"])))
    /\ window_size \in {2, 3}
    /\ prediction_days \in 1..MaxPred
    /\ work = None
    /\ out = None
    /\ prev = None
    /\ changed = NoKey
    /\ exit_code = NaN
    /\ saved = None

\* Lines 51-57: step 1, load_all_stock_data returns the combined table.
LoadData ==
    /\ pc = "start"
    /\ pc' = "loaded"
    /\ UNCHANGED <<df, window_size, prediction_days, work, out, prev, changed,
                   exit_code, saved>>

\* Lines 54-56: load_all_stock_data returns None (no directory, no file).
LoadFails ==
    /\ pc = "start"
    /\ pc' = "failed_load"
    /\ exit_code' = 1
    /\ UNCHANGED <<df, window_size, prediction_days, work, out, prev, changed,
                   saved>>

\* Lines 59-75: steps 2a (unless --skip-split-adjustment) and 2b.
HandleAnomaliesStep ==
    /\ pc = "loaded"
    /\ \E skip_split_adjustment \in BOOLEAN :
          LET adjusted == IF skip_split_adjustment THEN df
                          ELSE adjust_prices_for_splits_dividends(df)
              combined_df == handle_missing_trading_days(adjusted)
          IN  /\ out' = combined_df
              /\ IF ~combined_df.ok
                 THEN pc' = "failed_missing" /\ exit_code' = 1
                 ELSE pc' = "filled" /\ exit_code' = exit_code
    /\ UNCHANGED <<df, window_size, prediction_days, work, prev, changed, saved>>

\* Lines 77-87: step 3, the features and the removal of rows with a null
\* (dropna over every column; stock_id holds no null).  prev keeps the
\* table the step was handed.
FeatureStep ==
    /\ pc = "filled"
    /\ LET featured == engineer_features(out)
           combined_df == IF featured.ok
                          THEN Frame(featured.cols,
                                     dropna(featured.rows,
                                            featured.cols \ {"stock_id"}))
                          ELSE featured
       IN  /\ out' = combined_df
           /\ prev' = out
           /\ IF ~combined_df.ok \/ combined_df.rows = <<>>
              THEN pc' = "failed_features" /\ exit_code' = 1
              ELSE pc' = "featured" /\ exit_code' = exit_code
    /\ UNCHANGED <<df, window_size, prediction_days, work, changed, saved>>

\* The run goes on to save whatever the windowing returned.
WindowStepGoesOn ==
    /\ pc = "featured"
    /\ out' = create_windows_and_target(out, window_size, prediction_days)
    /\ work' = labeled_input(out, prediction_days)
    /\ pc' = "windowed"
    /\ UNCHANGED <<df, window_size, prediction_days, prev, changed, saved,
                   exit_code>>

\* Lines 90-99: step 4.
WindowStep ==
    /\ pc = "featured"
    /\ LET windowed_df == create_windows_and_target(out, window_size,
                                                    prediction_days)
       IN  /\ out' = windowed_df
           /\ work' = labeled_input(out, prediction_days)
           /\ IF ~windowed_df.ok
              THEN pc' = "failed_windows" /\ exit_code' = 1
              ELSE pc' = "windowed" /\ exit_code' = exit_code
    /\ UNCHANGED <<df, window_size, prediction_days, prev, changed, saved>>

\* Lines 101-119: step 5, the file is written.
SaveOutput ==
    /\ pc = "windowed"
    /\ saved' = out
    /\ exit_code' = 0
    /\ pc' = "saved"
    /\ UNCHANGED <<df, window_size, prediction_days, work, out, prev, changed>>

\* Lines 110-112: to_parquet raises.
SaveFails ==
    /\ pc = "windowed"
    /\ exit_code' = 1
    /\ pc' = "failed_save"
    /\ UNCHANGED <<df, window_size, prediction_days, work, out, prev, changed,
                   saved>>

NextPipeline ==
    \/ LoadData
    \/ LoadFails
    \/ HandleAnomaliesStep
    \/ FeatureStep
    \/ WindowStep
    \/ SaveOutput
    \/ SaveFails

SpecPipeline == InitPipeline /\ [][NextPipeline]_vars

----------------------------------------------------------------------------
(* Properties of the pipeline.                                             *)

AfterWindowStep == pc \in {"windowed", "failed_windows", "saved", "failed_save"}

\* C14: when no window is eligible in any entity, create_windows_and_target
\* returns None, main returns 1 and nothing is written.
C14_NoWindowsFailsTheRun ==
    (AfterWindowStep /\ Expected = {}) =>
        /\ pc = "failed_windows"
        /\ out = None
        /\ exit_code = 1
        /\ saved = None

\* The step labeled a table of two entities and found no eligible window.
C14_Witness ==
    /\ pc = "failed_windows"
    /\ work.ok
    /\ \E r \in SeqToSet(work.rows) : ~isna(r.target)
    /\ \E r \in SeqToSet(work.rows) : r.stock_id = "B"
    /\ Expected = {}
    /\ exit_code = 1

\* Some run writes its windows and returns 0.
WindowsSaved ==
    /\ pc = "saved"
    /\ exit_code = 0
    /\ saved.ok /\ saved.rows # <<>>

\* C15: when handle_missing_trading_days leaves no row of any entity, the
\* run fails there: no later stage is handed the empty table.
C15_ExhaustionAfterGapFilling ==
    pc = "filled" => out.rows # <<>>

\* Every run in which the gap filler drops all rows ends with exit code 1.
EmptyFillEndsInFailure ==
    (pc = "failed_features" /\ df.rows # <<>>) => exit_code = 1 /\ saved = None

Failed == {"failed_load", "failed_missing", "failed_features", "failed_windows",
           "failed_save"}

\* The steps of a run: each stage after the one before it, or its failure.
StageOrder ==
    {<<"start", "loaded">>, <<"start", "failed_load">>,
     <<"loaded", "filled">>, <<"loaded", "failed_missing">>,
     <<"filled", "featured">>, <<"filled", "failed_features">>,
     <<"featured", "windowed">>, <<"featured", "failed_windows">>,
     <<"windowed", "saved">>, <<"windowed", "failed_save">>}

\* The (entity, date) keys of a table's rows.
Keys(t) == {<<r.stock_id, r.datetime>> : r \in SeqToSet(t.rows)}

\* C26: a run takes the stages in the order load, gap filling, features,
\* windowing, save, each on the table the stage before it produced; a
\* failed stage ends the run with exit code 1 and nothing written; the
\* windowed table is written and 0 returned only after every stage
\* succeeded.
C26_FixedOrderFailFast ==
    [][/\ <<pc, pc'>> \in StageOrder
       /\ pc' \in Failed => (exit_code' = 1 /\ saved' = None)
       /\ pc' = "saved" => (exit_code' = 0 /\ saved' = out /\ out.ok)
       /\ pc' \notin (Failed \cup {"saved"}) => (exit_code' = NaN /\ saved' = None)
       /\ pc' = "filled" => (out'.ok /\ {k[1] : k \in Keys(out')}
                                             \subseteq {k[1] : k \in Keys(df)})
       /\ pc' = "featured" => (out'.ok /\ out'.rows # <<>> /\ Keys(out') \subseteq Keys(out))
       /\ pc' = "windowed" => (out'.ok /\ out'.rows # <<>> /\ Keys(out') \subseteq Keys(out))
      ]_vars

\* A run has gone through every stage and written its windows.
C26_Witness ==
    /\ pc = "saved"
    /\ exit_code = 0
    /\ saved = out
    /\ saved.rows # <<>>
    /\ work.ok

\* The rows of r's entity in the gap-filled table dated before r.
EarlierFilled(r) ==
    {x \in SeqToSet(prev.rows) : x.stock_id = r.stock_id /\ x.datetime < r.datetime}

FeatureStepDone == pc \in {"featured", "failed_features"}

\* C24 as stated: every (entity, date) record of the gap filler's output is
\* in the table handed to create_windows_and_target.
C24_Original ==
    pc = "featured" =>
        \A r \in SeqToSet(prev.rows) : HasRow(out, r.stock_id, r.datetime)

\* C24: the table that main hands on after feature derivation holds the
\* records of the gap filler's output with their values and added columns,
\* except the first record of every entity, which main's dropna removes
\* for its null daily_return; no other record is removed and none is added.
C24_RowsKeptButFirstOfEntity ==
    FeatureStepDone =>
        /\ out.ok
        /\ prev.cols \subseteq out.cols
        /\ \A r \in SeqToSet(prev.rows) :
              /\ HasRow(out, r.stock_id, r.datetime) <=> EarlierFilled(r) # {}
              /\ HasRow(out, r.stock_id, r.datetime) =>
                    \A c \in prev.cols :
                        RowOf(out, r.stock_id, r.datetime)[c] = r[c]
        /\ \A r \in SeqToSet(out.rows) : HasRow(prev, r.stock_id, r.datetime)

\* The step was handed rows of two entities and handed on rows of both.
C24_Witness ==
    /\ pc = "featured"
    /\ Entities(prev) = {"A", "B"}
    /\ Entities(out) = {"A", "B"}
    /\ Len(out.rows) = Len(prev.rows) - 2

\* The run got past windowing: out holds the windows, prev the gap-filled
\* table.
WindowsEmitted == pc \in {"windowed", "saved", "failed_save"}

\* C30: in a run of main no emitted window holds the first gap-filled
\* record of an entity, and an entity with window_size gap-filled rows or
\* fewer has no window: every entity with a window has at least
\* window_size + 1 gap-filled rows.
C30_FirstRecordNeverWindowed ==
    WindowsEmitted =>
        /\ \A w \in SeqToSet(out.rows) :
              /\ HasRow(prev, w.stock_id, w.datetime)
              /\ EarlierFilled(w) # {}
        /\ \A s \in Entities(prev) :
              Cardinality(RowsOfEntity(prev, s)) <= window_size => s \notin Entities(out)
        /\ \A s \in Entities(out) :
              Cardinality(RowsOfEntity(prev, s)) >= window_size + 1

\* A saved run in which an entity with exactly window_size gap-filled rows
\* has no window and another entity has one.
C30_Witness ==
    /\ pc = "saved"
    /\ \E s, t \in Entities(prev) :
          /\ Cardinality(RowsOfEntity(prev, s)) = window_size
          /\ s \notin Entities(out)
          /\ t \in Entities(out)

\* With a lookahead of a day or more the last record has no label, so an
\* entity with a window has window_size + 2 gap-filled rows or more.
WindowNeedsTwoMoreRows ==
    WindowsEmitted =>
        \A s \in Entities(out) :
            Cardinality(RowsOfEntity(prev, s)) >= window_size + 2

----------------------------------------------------------------------------
(* The three stages on a table that lacks one thing: a column, or the date *)
(* index.                                                                  *)

SchemaMaxDay == 4     \* last day of a table with something absent

SchemaMaxRows == 2    \* rows of its first entity

\* What the table lacks; "datetime" stands for the date index.
Absent == numeric_cols \cup {"stock_id", "datetime", "none"}

\* The rows without the absent column, the columns likewise.
without(d, c) ==
    Frame(d.cols \ {c},
          [i \in 1..Len(d.rows) |->
              IF c \in DOMAIN d.rows[i] THEN DropCol(d.rows[i], c) ELSE d.rows[i]])

\* df['target'] = 1, a table labeled beforehand
with_target(d) ==
    Frame(d.cols \cup {"target"},
          [i \in 1..Len(d.rows) |-> WithCol(d.rows[i], "target", 1)])

InitSchema ==
    /\ pc = "schema_input"
    /\ \E SA \in {S \in SUBSET (0..SchemaMaxDay) : Cardinality(S) \in 1..SchemaMaxRows},
          SB \in OtherEntity, c \in Absent, labeled \in BOOLEAN :
          \E f \in [SA -> Levels] :
              LET full == Frame(GapCols,
                                sort_index(KindRows("A", SA, f)
                                           \o KindRows("B", SB, [d \in SB |-> "high"])))
              IN  /\ labeled => c # "datetime"
                  /\ df = without(IF labeled THEN with_target(full) ELSE full, c)
    /\ prediction_days \in 1..MaxPred
    /\ window_size = 2
    /\ work = None
    /\ out = None
    /\ prev = None
    /\ changed = NoKey
    /\ exit_code = NaN
    /\ saved = None

\* handle_missing_trading_days(df), on a table with a date index
SchemaGap ==
    /\ pc = "schema_input"
    /\ has_datetime_index(df)
    /\ out' = handle_missing_trading_days(df)
    /\ pc' = "schema_gap"
    /\ UNCHANGED <<df, window_size, prediction_days, work, prev, changed,
                   exit_code, saved>>

\* create_target(df, prediction_days)
SchemaTarget ==
    /\ pc = "schema_input"
    /\ "target" \notin df.cols
    /\ out' = create_target(df, prediction_days)
    /\ pc' = "schema_target"
    /\ UNCHANGED <<df, window_size, prediction_days, work, prev, changed,
                   exit_code, saved>>

\* create_windows_and_target(df, window_size, prediction_days)
SchemaWindows ==
    /\ pc = "schema_input"
    /\ out' = create_windows_and_target(df, window_size, prediction_days)
    /\ pc' = "schema_windows"
    /\ UNCHANGED <<df, window_size, prediction_days, work, prev, changed,
                   exit_code, saved>>

NextSchema == SchemaGap \/ SchemaTarget \/ SchemaWindows

SpecSchema == InitSchema /\ [][NextSchema]_vars

\* The stage has run on a table that lacks a column of the schema or the
\* date index.
RanWithoutRequired ==
    /\ pc \in {"schema_gap", "schema_target", "schema_windows"}
    /\ (~(GapCols \subseteq df.cols) \/ ~has_datetime_index(df))

\* C18 as stated: whichever of open, high, low, close, volume, the entity
\* id and the date index the input lacks, the stage that runs on it aborts
\* and returns no table.
C18_Original ==
    RanWithoutRequired => ~out.ok

\* C18: a stage aborts when the input lacks a column it reads.  The gap
\* filler raises when stock_id or open is absent and otherwise returns a
\* table with the columns of its input, so the absence of high, low, close
\* or volume does not abort it; create_target raises when stock_id or close
\* is absent and returns None without a date index; the window stage raises
\* when stock_id is absent and fails as create_target does when it has to
\* compute the target.
C18_AbortsOnColumnRead ==
    /\ pc = "schema_gap" =>
          /\ out.ok <=> {"stock_id", "open"} \subseteq df.cols
          /\ ~out.ok => out = KeyError
          /\ out.ok => out.cols = df.cols
    /\ pc = "schema_target" =>
          /\ ~has_datetime_index(df) => out = None
          /\ (has_datetime_index(df) /\ ~({"stock_id", "close"} \subseteq df.cols))
                => out = KeyError
    /\ pc = "schema_windows" =>
          /\ ("stock_id" \notin df.cols /\ has_datetime_index(df)) => out = KeyError
          /\ ("target" \notin df.cols /\ ~has_datetime_index(df)) => out = None
          /\ ("target" \notin df.cols /\ has_datetime_index(df)
                /\ "close" \notin df.cols) => out = KeyError

\* The gap filler has raised on a table without an open column.
C18_Witness ==
    /\ pc = "schema_gap"
    /\ df.cols = (GapCols \ {"open"})
    /\ out = KeyError

\* The gap filler has interpolated a row of a table without a close column.
FilledWithoutClose ==
    /\ pc = "schema_gap"
    /\ "close" \notin df.cols
    /\ out.ok
    /\ Len(out.rows) > Len(df.rows)

\* The window stage has raised on a labeled table without an entity id.
WindowsRaised ==
    /\ pc = "schema_windows"
    /\ "target" \in df.cols
    /\ "stock_id" \notin df.cols
    /\ out = KeyError

----------------------------------------------------------------------------
(* Each stage run twice on the same rows of the first entity, the rows of  *)
(* the second entity replaced in between.                                  *)

IndepMaxDay == 3      \* last day of a table of the two entities

IndepMaxRows == 2     \* rows of the first entity

\* The rows of one entity on the dates S, populated, their level by date.
LevelRows(s, S) ==
    KindRows(s, S, [d \in S |-> IF d % 2 = 0 THEN "low" ELSE "high"])

\* What the second entity contributes: nothing, one row or two.
OtherRows ==
    {LevelRows("B", S) : S \in {T \in SUBSET (0..IndepMaxDay) : Cardinality(T) <= 2}}

\* The rows of the other entities replaced by rows.
replace_others(d, s, rows) ==
    LET Own(r) == r.stock_id = s
        target_of(r) == IF "target" \in d.cols THEN WithCol(r, "target", 1) ELSE r
    IN  Frame(d.cols,
              sort_index(SelectSeq(d.rows, Own)
                         \o [i \in 1..Len(rows) |-> target_of(rows[i])]))

InitIndep ==
    /\ pc = "indep_input"
    /\ \E SA \in {S \in SUBSET (0..IndepMaxDay) : Cardinality(S) \in 1..IndepMaxRows},
          other \in OtherRows, labeled \in BOOLEAN :
          LET full == Frame(GapCols, sort_index(LevelRows("A", SA) \o other))
          IN  df = IF labeled THEN with_target(full) ELSE full
    /\ prediction_days = 1
    /\ window_size = 2
    /\ work = None
    /\ out = None
    /\ prev = None
    /\ changed = NoKey
    /\ exit_code = NaN
    /\ saved = None

\* handle_missing_trading_days(df)
GapStage ==
    /\ pc \in {"indep_input", "other_gap"}
    /\ "target" \notin df.cols
    /\ out' = handle_missing_trading_days(df)
    /\ pc' = IF pc = "indep_input" THEN "ran_gap" ELSE "reran_gap"
    /\ UNCHANGED <<df, window_size, prediction_days, work, prev, changed,
                   exit_code, saved>>

\* engineer_features(df)
FeatureStage ==
    /\ pc \in {"indep_input", "other_features"}
    /\ "target" \notin df.cols
    /\ out' = engineer_features(df)
    /\ pc' = IF pc = "indep_input" THEN "ran_features" ELSE "reran_features"
    /\ UNCHANGED <<df, window_size, prediction_days, work, prev, changed,
                   exit_code, saved>>

\* create_target(df, prediction_days)
TargetStage ==
    /\ pc \in {"indep_input", "other_target"}
    /\ "target" \notin df.cols
    /\ out' = create_target(df, prediction_days)
    /\ pc' = IF pc = "indep_input" THEN "ran_target" ELSE "reran_target"
    /\ UNCHANGED <<df, window_size, prediction_days, work, prev, changed,
                   exit_code, saved>>

\* create_windows_and_target(df, window_size, prediction_days)
WindowStage ==
    /\ pc \in {"indep_input", "other_windows"}
    /\ out' = create_windows_and_target(df, window_size, prediction_days)
    /\ pc' = IF pc = "indep_input" THEN "ran_windows" ELSE "reran_windows"
    /\ UNCHANGED <<df, window_size, prediction_days, work, prev, changed,
                   exit_code, saved>>

\* The caller replaces the rows of the second entity and keeps the result
\* of the first call.
ChangeOther ==
    /\ pc \in {"ran_gap", "ran_features", "ran_target", "ran_windows"}
    /\ \E other \in OtherRows :
          /\ replace_others(df, "A", other) # df
          /\ df' = replace_others(df, "A", other)
    /\ prev' = out
    /\ pc' = IF pc = "ran_gap" THEN "other_gap"
             ELSE IF pc = "ran_features" THEN "other_features"
             ELSE IF pc = "ran_target" THEN "other_target"
             ELSE "other_windows"
    /\ UNCHANGED <<window_size, prediction_days, work, out, changed,
                   exit_code, saved>>

NextIndep ==
    GapStage \/ FeatureStage \/ TargetStage \/ WindowStage \/ ChangeOther

SpecIndep == InitIndep /\ [][NextIndep]_vars

\* The rows of entity s in what a call returned, none when it failed.
RowsOf(s, t) ==
    IF t.ok THEN LET Own(r) == r.stock_id = s IN SelectSeq(t.rows, Own)
    ELSE <<>>

Reran == {"reran_gap", "reran_features", "reran_target", "reran_windows"}

\* C11: the rows of entity A that a stage returns are the same whatever
\* rows entity B contributes to the input: after the rows of B are
\* replaced and the stage is run again, A's rows are those of the first run.
C11_EntityIndependence ==
    pc \in Reran => RowsOf("A", out) = RowsOf("A", prev)

\* The stages that do not label keep A's rows whatever B contributes, and
\* so does labeling whenever both calls return a table.
IndependentApartFromLabelingFailure ==
    (/\ pc \in Reran
     /\ (pc = "reran_target" \/ (pc = "reran_windows" /\ "target" \notin df.cols))
           => (out.ok /\ prev.ok))
        => RowsOf("A", out) = RowsOf("A", prev)

\* Labeling has returned rows of A with B on other dates and nothing with
\* A alone.
LabelingDependsOnOther ==
    /\ pc = "reran_target"
    /\ RowsOf("A", prev) # <<>>
    /\ RowsOf("B", df) = <<>>
    /\ out = None

----------------------------------------------------------------------------
(* The feature functions on a table without close or without volume, as in *)
(* test_engineer_features_missing_columns.                                 *)

\* The column the table lacks.
AbsentFeatureInput == {"close", "volume", "none"}

\* df['open'] next to close and volume
with_open(rows) ==
    [i \in 1..Len(rows) |-> WithCol(rows[i], "open", rows[i].close + Unit)]

InitDegrade ==
    /\ pc = "input"
    /\ \E n \in 1..FeatMaxRows, SB \in OtherDates(2), c \in AbsentFeatureInput :
          \E fc \in [0..(n - 1) -> FeatLevels], k \in 1..2 :
              df = without(
                       Frame({"stock_id", "open", "close", "volume"},
                             with_open(
                                 sort_index(
                                     FeatRows("A", 0..(n - 1), fc,
                                              [d \in 0..(n - 1) |-> VolumeLevel(k, d)])
                                     \o FeatRows("B", SB, [d \in SB |-> 4 - 3 * d],
                                                 [d \in SB |-> 2 + 4 * d])))),
                       c)
    /\ window_size \in {2, 3}
    /\ prediction_days = 0
    /\ work = None
    /\ out = None
    /\ prev = None
    /\ changed = NoKey
    /\ exit_code = NaN
    /\ saved = None

SpecDegrade == InitDegrade /\ [][NextFeatures]_vars

\* C21: engineer_features on a table without close adds avg_volume_7 and
\* none of daily_return, MA_5, MA_20; without volume it adds daily_return,
\* MA_5 and MA_20 and not avg_volume_7; either way it returns a table with
\* the rows of the input, every input column with its values.
C21_DegradesOnMissingColumn ==
    pc = "featured" =>
        /\ "close" \notin df.cols => SameRowsPlus({"avg_volume_7"})
        /\ "volume" \notin df.cols => SameRowsPlus({"daily_return", "MA_5", "MA_20"})

\* engineer_features has run on two rows or more without a close column.
C21_Witness ==
    /\ pc = "featured"
    /\ "close" \notin df.cols
    /\ Len(df.rows) >= 2
    /\ out.ok
    /\ "avg_volume_7" \in out.cols

\* engineer_features has run on a table without a volume column.
FeaturedWithoutVolume ==
    /\ pc = "featured"
    /\ "volume" \notin df.cols
    /\ out.ok
    /\ "daily_return" \in out.cols

----------------------------------------------------------------------------
(* handle_missing_trading_days on tables of any columns and index name,    *)
(* without rows or with a few.                                             *)

IndexNames == {"datetime", "date", "unnamed"}

\* The rows cut down to the columns cols and their date.
project(rows, cols) ==
    [i \in 1..Len(rows) |-> [k \in cols \cup {"datetime"} |-> rows[i][k]]]

\* pd.DataFrame(columns=cols), or one with rows, under an index name
named_table(cols, rows, name) ==
    [ok |-> TRUE, cols |-> cols, rows |-> project(rows, cols), index_name |-> name]

InitEmpty ==
    /\ pc = "input"
    /\ \E cols \in SUBSET GapCols, name \in IndexNames,
          S \in {{}, {1}, {1, 3}, {2, 7}} :
          df = named_table(cols, LevelRows("A", S), name)
    /\ prediction_days = 0
    /\ window_size = 0
    /\ work = None
    /\ out = None
    /\ prev = None
    /\ changed = NoKey
    /\ exit_code = NaN
    /\ saved = None

SpecEmpty == InitEmpty /\ [][HandleMissing]_vars

\* C23: on a table without rows handle_missing_trading_days returns a
\* table, without rows, with the columns and the index name of its input.
C23_EmptyInEmptyOut ==
    (pc = "filled" /\ df.rows = <<>>) =>
        /\ out.ok
        /\ out.rows = <<>>
        /\ out.cols = df.cols
        /\ out.index_name = df.index_name

\* The call has returned for the empty table of the six columns.
C23_Witness ==
    /\ pc = "filled"
    /\ df.rows = <<>>
    /\ df.cols = GapCols
    /\ df.index_name = "datetime"
    /\ out.ok

\* A table with rows and all columns keeps its index name when filled.
FilledKeepsIndexName ==
    /\ pc = "filled"
    /\ df.cols = GapCols
    /\ Len(out.rows) > Len(df.rows)
    /\ out.index_name = df.index_name

============================================================================
